---------------------------- MODULE Spec2Model ----------------------------
(***************************************************************************)
(* Model of kineforge (src/src/main.ts): a LiteGraph.js node graph that is *)
(* ticked once per animation frame and turns webcam frames into face/hand  *)
(* metrics, control values and a decaying trail on the stage canvas.       *)
(*                                                                         *)
(* main.ts is the whole program of the repository; the graph engine it     *)
(* drives (LGraph, LGraphNode) is the litegraph.js dependency.  Each       *)
(* engine call of main.ts (graph.add, node.connect, graph.clear,           *)
(* graph.runStep, getInputData, setOutputData) is modelled at its call     *)
(* site by what litegraph.js does there; those definitions say so.         *)
(*                                                                         *)
(* Numbers: normalised coordinates and control values are integers in      *)
(* thousandths (0.5 is 500); a trail point's life is an integer number of  *)
(* decay steps of 0.02 (1.0 is 50): in IEEE doubles fifty subtractions of  *)
(* 0.02 from 1 pass 0.0199999999999994 and are clamped to 0 by Math.max,   *)
(* so a point is dropped by exactly its fiftieth decay, as here.           *)
(***************************************************************************)
EXTENDS Integers, Sequences, FiniteSets, TLC

VARIABLES
    \* AppState (main.ts 126-140)
    modelsReady, cameraReady, stream, faceLandmarker, handLandmarker,
    rafId, trail, frameCounter, lastFaceMetrics, lastHandMetrics,
    \* ui
    startDisabled,      \* ui.startBtn.disabled
    webcamSrc,          \* ui.webcam.srcObject: 0 (null) or a stream id
    webcamHasFrame,     \* ui.webcam.readyState >= 2
    \* the start click handler's position and its local `stream`
    startPc, pendingStream,
    \* the browser: camera streams with live tracks, streams handed out so far,
    \* queued animation-frame callbacks of `loop`
    liveTracks, streamsAcquired, rafPending,
    \* the LGraph: _nodes, links, last_node_id, _nodes_executable
    nodes, links, lastNodeId, order,
    \* observation of the last runStep / the last graph operation
    executed,           \* ids of the nodes whose onExecute ran, in order
    thrown,             \* id of the node whose onExecute threw, 0 if none
    detectCalled,       \* ids of the nodes that called detectForVideo
    presenceLog,        \* presence of every drawStage call so far (1 or 0)
    lastOp,             \* the last graph operation and its outcome
    edits,              \* number of editor operations so far
    \* the browser's clock and what the Stage last showed
    now,                \* performance.now(), in display frames (1/60 s)
    rafFired,           \* animation-frame callbacks the browser has run
    stagePicture,       \* what drawStage last painted on the stage canvas
    debugPayload,       \* the payload updateDebugOutput last wrote
    stageInputs,        \* image and controls of the last StageOutputNode.onExecute
    handResult,         \* what handLandmarker.detectForVideo last returned
    \* the JavaScript thread, for the step-by-step view of the callbacks
    loopPc,             \* nodes `loop` has executed, -1 when it is not running
    resetPc,            \* calls createDefaultGraph has made, -1 when not running
    \* observation of the buttons
    stoppedSinceStart   \* a Stop click was handled after the last Start click

vars == <<modelsReady, cameraReady, stream, faceLandmarker, handLandmarker,
          rafId, trail, frameCounter, lastFaceMetrics, lastHandMetrics,
          startDisabled, webcamSrc, webcamHasFrame, startPc, pendingStream,
          liveTracks, streamsAcquired, rafPending,
          nodes, links, lastNodeId, order,
          executed, thrown, detectCalled, presenceLog, lastOp, edits,
          now, rafFired, stagePicture, debugPayload, stageInputs, handResult,
          loopPc, resetPc, stoppedSinceStart>>

-----------------------------------------------------------------------------
(* Bounds of the model *)

MaxFrames == 3          \* ticks explored by Spec
MaxEditFrames == 2      \* ticks explored by SpecEdit
MaxTrailFrames == 51    \* ticks explored by SpecTrail
MaxToggles == 2         \* changes of the detection input in SpecTrail
MaxStreams == 2         \* camera streams getUserMedia hands out
MaxEdits == 1           \* editor operations in SpecEdit
MaxNodes == 7           \* nodes the editor may hold
MaxStageFrames == 3     \* ticks explored by SpecStage
MaxStepFrames == 2      \* ticks explored by SpecSteps

(* Program constants *)

TrailMax == 45          \* drawStage: state.trail.length > 45
LifeFull == 50          \* life: 1, in decay steps of 0.02
DecayStep == 1          \* p.life - 0.02

-----------------------------------------------------------------------------
(* Values flowing on links.  Every value is a record with a kind field k. *)

Null == [k |-> "null"]
Undefined == [k |-> "undefined"]
Canvas(name) == [k |-> "canvas", name |-> name]
Number == [k |-> "number"]
Landmarks(n) == [k |-> "landmarks", n |-> n]

\* JavaScript truthiness of a link value (objects are truthy)
Truthy(v) == v.k \notin {"null", "undefined"}

\* obj.f ?? d
FieldOr(obj, f, d) == IF f \in DOMAIN obj THEN obj[f] ELSE d

Max(a, b) == IF a >= b THEN a ELSE b
Min(a, b) == IF a <= b THEN a ELSE b

\* clamp(value, min, max)
clamp(value, min, max) == Max(min, Min(max, value))

-----------------------------------------------------------------------------
(* Node types and their ports (the constructors of the six node classes) *)

NodeTypes == {"webcam", "face", "hand", "overlay", "mapper", "stage"}

InTypes(type) ==
    CASE type = "webcam"  -> <<>>
      [] type = "face"    -> <<"canvas", "number">>
      [] type = "hand"    -> <<"canvas", "number">>
      [] type = "overlay" -> <<"canvas", "array", "array">>
      [] type = "mapper"  -> <<"object", "object">>
      [] type = "stage"   -> <<"canvas", "object">>

OutTypes(type) ==
    CASE type = "webcam"  -> <<"canvas", "number">>
      [] type = "face"    -> <<"array", "object">>
      [] type = "hand"    -> <<"array", "object">>
      [] type = "overlay" -> <<"canvas">>
      [] type = "mapper"  -> <<"object">>
      [] type = "stage"   -> <<>>

\* The value kinds of the specification's data model, per port
OutKinds(type) ==
    CASE type = "webcam"  -> <<"image-buffer", "number">>
      [] type = "face"    -> <<"landmark-set-list", "metrics-record">>
      [] type = "hand"    -> <<"landmark-set-list", "metrics-record">>
      [] type = "overlay" -> <<"image-buffer">>
      [] type = "mapper"  -> <<"control-record">>
      [] type = "stage"   -> <<>>

InKinds(type) ==
    CASE type = "webcam"  -> <<>>
      [] type = "face"    -> <<"image-buffer", "number">>
      [] type = "hand"    -> <<"image-buffer", "number">>
      [] type = "overlay" -> <<"image-buffer", "landmark-set-list", "landmark-set-list">>
      [] type = "mapper"  -> <<"metrics-record", "metrics-record">>
      [] type = "stage"   -> <<"image-buffer", "control-record">>

-----------------------------------------------------------------------------
(* The graph: nodes in insertion order, links in creation order *)

NodeIds(ns) == {ns[i].id : i \in DOMAIN ns}

NodeIndex(ns, id) == CHOOSE i \in DOMAIN ns : ns[i].id = id
NodeType(ns, id) == ns[NodeIndex(ns, id)].type

Link(o, os, t, ts) == [origin |-> o, oslot |-> os, target |-> t, tslot |-> ts,
                       data |-> Undefined]

\* The link of an input slot, as a set of indices (empty or one element)
InputLink(ls, id, slot) ==
    {i \in DOMAIN ls : ls[i].target = id /\ ls[i].tslot = slot}

\* Edges without the values they carry
EdgeSet(ls) == {<<ls[i].origin, ls[i].oslot, ls[i].target, ls[i].tslot>> : i \in DOMAIN ls}

\* Sequence s without the elements at the indices in drop
RECURSIVE Without(_, _)
Without(s, drop) ==
    IF s = <<>> THEN <<>>
    ELSE LET n == Len(s)
             init == Without(SubSeq(s, 1, n - 1), drop)
         IN  IF n \in drop THEN init ELSE Append(init, s[n])

\* The links leaving node id, output slot by output slot, each slot's links in
\* creation order (the order of output.links)
OutLinks(ls, id) ==
    LET Slot0(l) == l.origin = id /\ l.oslot = 0
        Slot1(l) == l.origin = id /\ l.oslot = 1
    IN  SelectSeq(ls, Slot0) \o SelectSeq(ls, Slot1)

\* LGraph.computeExecutionOrder, called by every graph.add, node.connect,
\* disconnectInput and graph.remove (updateExecutionOrder): Kahn's algorithm
\* over a FIFO of ready nodes; S starts with the nodes that have no linked
\* input, in _nodes order; the nodes never released (those on or behind a
\* loop) are appended in ascending id order.
RECURSIVE Release(_, _, _)
Release(out, S, remaining) ==
    \* one pass over a node's outgoing links: <<S, remaining>> afterwards
    IF out = <<>> THEN <<S, remaining>>
    ELSE LET t == Head(out).target
             r == [remaining EXCEPT ![t] = @ - 1]
         IN  Release(Tail(out), IF r[t] = 0 THEN Append(S, t) ELSE S, r)

RECURSIVE Kahn(_, _, _, _)
Kahn(ls, S, L, remaining) ==
    IF S = <<>> THEN L
    ELSE LET n == Head(S)
             next == Release(OutLinks(ls, n), Tail(S), remaining)
         IN  Kahn(ls, next[1], Append(L, n), next[2])

RECURSIVE Ascending(_)
Ascending(ids) ==
    IF ids = {} THEN <<>>
    ELSE LET m == CHOOSE x \in ids : \A y \in ids : x <= y
         IN  <<m>> \o Ascending(ids \ {m})

SeqRange(s) == {s[i] : i \in DOMAIN s}

computeExecutionOrder(ns, ls) ==
    LET num == [id \in NodeIds(ns) |->
                   Cardinality({i \in DOMAIN ls : ls[i].target = id})]
        Starting(n) == num[n.id] = 0
        startIds == SelectSeq(ns, Starting)
        S == [i \in DOMAIN startIds |-> startIds[i].id]
        L == Kahn(ls, S, <<>>, num)
    IN  L \o Ascending(NodeIds(ns) \ SeqRange(L))

\* LiteGraph.isValidConnection for the four type strings main.ts declares
\* (none is empty, "*" or a comma list): valid exactly when they are equal
isValidConnection(typeA, typeB) == typeA = typeB

\* LGraphNode.connect(slot, target_node, target_slot) as main.ts 658-671 and
\* the editor call it: a self-connection and a type mismatch return null and
\* change nothing; otherwise a link already on the target input is removed
\* and the new link is appended.  No other check is made.
ConnectAccepted(ns, o, os, t, ts) ==
    /\ o # t
    /\ isValidConnection(OutTypes(NodeType(ns, o))[os + 1],
                         InTypes(NodeType(ns, t))[ts + 1])

connect(ns, ls, o, os, t, ts) ==
    IF ConnectAccepted(ns, o, os, t, ts)
    THEN Append(Without(ls, InputLink(ls, t, ts)), Link(o, os, t, ts))
    ELSE ls

\* LGraphNode.disconnectInput(slot)
disconnectInput(ls, t, ts) == Without(ls, InputLink(ls, t, ts))

\* LGraph.remove(node): its links are disconnected, then it leaves _nodes
removeNodeLinks(ls, id) ==
    Without(ls, {i \in DOMAIN ls : ls[i].origin = id \/ ls[i].target = id})

removeNode(ns, id) == Without(ns, {NodeIndex(ns, id)})

\* A directed cycle among the links (a node that reaches itself)
RECURSIVE Reach(_, _)
Reach(ls, from) ==
    LET step == from \cup {ls[i].target : i \in {j \in DOMAIN ls : ls[j].origin \in from}}
    IN  IF step = from THEN from ELSE Reach(ls, step)

Acyclic(ls) ==
    \A i \in DOMAIN ls : ls[i].origin \notin Reach(ls, {ls[i].target})

\* createDefaultGraph (main.ts 634-674): clear, six adds, eleven connects
DefaultNodes ==
    << [id |-> 1, type |-> "webcam"], [id |-> 2, type |-> "face"],
       [id |-> 3, type |-> "hand"],   [id |-> 4, type |-> "overlay"],
       [id |-> 5, type |-> "mapper"], [id |-> 6, type |-> "stage"] >>

DefaultConnects ==
    << <<1, 0, 2, 0>>, <<1, 1, 2, 1>>, <<1, 0, 3, 0>>, <<1, 1, 3, 1>>,
       <<1, 0, 4, 0>>, <<2, 0, 4, 1>>, <<3, 0, 4, 2>>,
       <<2, 1, 5, 0>>, <<3, 1, 5, 1>>,
       <<4, 0, 6, 0>>, <<5, 0, 6, 1>> >>

RECURSIVE ConnectAll(_, _, _)
ConnectAll(ns, ls, cs) ==
    IF cs = <<>> THEN ls
    ELSE LET c == Head(cs)
         IN  ConnectAll(ns, connect(ns, ls, c[1], c[2], c[3], c[4]), Tail(cs))

DefaultLinks == ConnectAll(DefaultNodes, <<>>, DefaultConnects)

\* The graph as a value: _nodes, links, last_node_id
Graph == [nodes |-> nodes, links |-> links, lastNodeId |-> lastNodeId]

\* Mutant of clear: the graph is left as it is
clearNothing(g) == g

\* graph.clear(): no nodes, no links, last_node_id = 0
clear(g) == [nodes |-> <<>>, links |-> <<>>, lastNodeId |-> 0]

\* graph.add(node): the node gets id ++last_node_id and joins _nodes
add(g, type) ==
    [g EXCEPT !.lastNodeId = @ + 1,
              !.nodes = Append(@, [id |-> g.lastNodeId + 1, type |-> type])]

RECURSIVE AddAll(_, _)
AddAll(g, types) ==
    IF types = <<>> THEN g ELSE AddAll(add(g, Head(types)), Tail(types))

\* createDefaultGraph(): clear, the six adds, then the eleven connects between
\* the six nodes just created (DefaultConnects numbers them 1..6)
createDefaultGraph(g) ==
    LET cleared == clear(g)
        base == cleared.lastNodeId
        added == AddAll(cleared, [i \in DOMAIN DefaultNodes |-> DefaultNodes[i].type])
        cs == [i \in DOMAIN DefaultConnects |->
                  <<base + DefaultConnects[i][1], DefaultConnects[i][2],
                    base + DefaultConnects[i][3], DefaultConnects[i][4]>>]
    IN  [added EXCEPT !.links = ConnectAll(added.nodes, @, cs)]

-----------------------------------------------------------------------------
(* Port data.  litegraph.js keeps a published value on every link leaving   *)
(* the output slot; an input without a link reads undefined, a link not yet *)
(* written since its creation holds undefined.                              *)

\* this.setOutputData(slot, data)
setOutputData(ls, id, slot, data) ==
    [i \in DOMAIN ls |->
        IF ls[i].origin = id /\ ls[i].oslot = slot
        THEN [ls[i] EXCEPT !.data = data] ELSE ls[i]]

\* this.getInputData(slot)
getInputData(ls, id, slot) ==
    LET l == InputLink(ls, id, slot)
    IN  IF l = {} THEN Undefined ELSE ls[CHOOSE i \in l : TRUE].data

-----------------------------------------------------------------------------
(* The inference backend's answer for a frame: what detectForVideo returns  *)
(* (count of faces or hands, and for the first one the landmark positions   *)
(* and distances the metrics read), or that the call throws.                *)

NoFace == [count |-> 0, noseX |-> 500, noseY |-> 500, lips |-> 0]
OneFace == [count |-> 1, noseX |-> 600, noseY |-> 400, lips |-> 30]
NoHand == [count |-> 0, pinchDistance |-> 0, wristY |-> 500]
OneHand == [count |-> 1, pinchDistance |-> 20, wristY |-> 300]

FaceResults == {NoFace, OneFace}
HandResults == {NoHand, OneHand}
ThrowAt == {"none", "face", "hand"}

\* FaceExtractNode.onExecute, lines 447-466: the metrics of a detection
FaceMetricsOf(res) ==
    [k |-> "face", count |-> res.count,
     noseX |-> IF res.count > 0 THEN res.noseX ELSE 500,
     noseY |-> IF res.count > 0 THEN res.noseY ELSE 500,
     jaw |-> IF res.count > 0 THEN res.lips ELSE 0]

\* Mutant of HandMetricsOf: the pinch is not clamped
HandMetricsOfUnclamped(res) ==
    [k |-> "hand", count |-> res.count,
     pinch |-> IF res.count > 0 THEN 1000 - res.pinchDistance * 8 ELSE 0,
     palmY |-> IF res.count > 0 THEN res.wristY ELSE 500]

\* HandExtractNode.onExecute, lines 497-514
HandMetricsOf(res) ==
    [k |-> "hand", count |-> res.count,
     pinch |-> IF res.count > 0 THEN clamp(1000 - res.pinchDistance * 8, 0, 1000) ELSE 0,
     palmY |-> IF res.count > 0 THEN res.wristY ELSE 500]

-----------------------------------------------------------------------------
(* The trail of drawStage (main.ts 337-347) *)

\* Mutant of TrailPush: the length check after the push is missing
TrailPushUncapped(tr, presence, cx, cy) ==
    IF presence > 0
    THEN Append(tr, [x |-> cx, y |-> cy, life |-> LifeFull])
    ELSE tr

\* if (presence > 0) { push({x: cx, y: cy, life: 1}); if (length > 45) shift() }
TrailPush(tr, presence, cx, cy) ==
    IF presence > 0
    THEN LET pushed == Append(tr, [x |-> cx, y |-> cy, life |-> LifeFull])
         IN  IF Len(pushed) > TrailMax THEN Tail(pushed) ELSE pushed
    ELSE tr

\* Mutant of TrailDecay: the decay follows the frame counter's parity, as a
\* decay scaled by elapsed time would
TrailDecayByFrame(tr) ==
    LET step == IF frameCounter % 2 = 0 THEN DecayStep ELSE 2 * DecayStep
        decayed == [i \in DOMAIN tr |-> [tr[i] EXCEPT !.life = Max(0, @ - step)]]
        Alive(p) == p.life > 0
    IN  SelectSeq(decayed, Alive)

\* Mutant of TrailDecay: points at life 0 are kept
TrailDecayKeepsDead(tr) ==
    [i \in DOMAIN tr |-> [tr[i] EXCEPT !.life = Max(0, @ - DecayStep)]]

\* for (const p of trail) p.life = Math.max(0, p.life - 0.02);
\* trail = trail.filter((p) => p.life > 0)
TrailDecay(tr) ==
    LET decayed == [i \in DOMAIN tr |-> [tr[i] EXCEPT !.life = Max(0, @ - DecayStep)]]
        Alive(p) == p.life > 0
    IN  SelectSeq(decayed, Alive)

\* Mutant of TrailUpdate: decay and drop first, push afterwards
TrailUpdateDecayFirst(tr, presence, cx, cy) ==
    LET decayed == [i \in DOMAIN tr |-> [tr[i] EXCEPT !.life = Max(0, @ - DecayStep)]]
        Alive(p) == p.life > 0
        pushed == Append(SelectSeq(decayed, Alive), [x |-> cx, y |-> cy, life |-> LifeFull])
    IN  IF presence > 0
        THEN IF Len(pushed) > TrailMax THEN Tail(pushed) ELSE pushed
        ELSE SelectSeq(decayed, Alive)

\* The trail after one drawStage call
TrailUpdate(tr, presence, cx, cy) == TrailDecay(TrailPush(tr, presence, cx, cy))

\* drawStage(baseImage, controls): the target position in ten-thousandths
\* of the stage's width and height, and the trail
StageX(controls) == clamp(5000 + FieldOr(controls, "tilt", 0) * 11, 500, 9500)
StageY(controls) == clamp(7000 - FieldOr(controls, "lift", 0) * 8, 800, 9200)

\* What drawStage paints besides the trail: the base image, the target
\* position, the glow's radius (thousandths of a pixel) and the hue, which
\* follows performance.now(): (time * 85 + pinch * 220) % 360 with time in
\* seconds, here in 1/300 degree with time in frames of 1/60 s
StagePicture(baseImage, controls, time) ==
    LET pinch == FieldOr(controls, "pinch", 0)
        jaw == FieldOr(controls, "jaw", 0)
    IN  [image |-> IF Truthy(baseImage) THEN baseImage ELSE Null,
         cx |-> StageX(controls),
         cy |-> StageY(controls),
         radius |-> 40000 + pinch * 240 + jaw * 2000,
         hue |-> (time * 425 + pinch * 66) % 108000]

drawStage(env, baseImage, controls) ==
    LET presence == FieldOr(controls, "presence", 0)
    IN  [env EXCEPT
            !.trail = TrailUpdate(@, presence, StageX(controls), StageY(controls)),
            !.presenceLog = Append(@, IF presence > 0 THEN 1 ELSE 0),
            !.stagePicture = StagePicture(baseImage, controls, env.now)]

\* updateDebugOutput(controls)
updateDebugOutput(env, controls) ==
    [env EXCEPT !.debugPayload =
        [modelsReady |-> modelsReady, cameraReady |-> cameraReady,
         frame |-> env.frame, face |-> env.lastFaceMetrics,
         hand |-> env.lastHandMetrics, controls |-> controls]]

-----------------------------------------------------------------------------
(* onExecute of the six node classes.  env is the state a tick works on:    *)
(* links, trail, lastFaceMetrics, lastHandMetrics and the observation of    *)
(* the tick; in is the backend's behaviour in this tick.                    *)

\* Mutant of WebcamSourceNode: the guard does not look at state.cameraReady
WebcamSourceNodeIgnoresCameraReady(env, id) ==
    IF ~webcamHasFrame
    THEN [env EXCEPT !.links = setOutputData(setOutputData(@, id, 0, Null), id, 1, Number)]
    ELSE [env EXCEPT !.links = setOutputData(setOutputData(@, id, 0, Canvas("source")),
                                             id, 1, Number)]

WebcamSourceNode(env, id) ==
    IF ~cameraReady \/ ~webcamHasFrame
    THEN [env EXCEPT !.links = setOutputData(setOutputData(@, id, 0, Null), id, 1, Number)]
    ELSE [env EXCEPT !.links = setOutputData(setOutputData(@, id, 0, Canvas("source")),
                                             id, 1, Number)]

\* Mutant of FaceExtractNode: the guard does not look at the frame
FaceExtractNodeNoFrameCheck(env, id, in) ==
    IF ~modelsReady \/ faceLandmarker = "null"
    THEN [env EXCEPT
            !.links = setOutputData(setOutputData(@, id, 0, Null), id, 1, Null),
            !.lastFaceMetrics = Null]
    ELSE IF in.throwAt = "face"
    THEN [env EXCEPT !.detectCalled = @ \cup {id}, !.thrown = id]
    ELSE [env EXCEPT
            !.detectCalled = @ \cup {id},
            !.lastFaceMetrics = [k |-> "face", count |-> in.face.count,
                                 noseX |-> in.face.noseX, noseY |-> in.face.noseY,
                                 jaw |-> in.face.lips],
            !.links = setOutputData(
                          setOutputData(@, id, 0, Landmarks(in.face.count)),
                          id, 1, [k |-> "face", count |-> in.face.count,
                                  noseX |-> in.face.noseX, noseY |-> in.face.noseY,
                                  jaw |-> in.face.lips])]

FaceExtractNode(env, id, in) ==
    LET frame == getInputData(env.links, id, 0)
    IN  IF ~Truthy(frame) \/ ~modelsReady \/ faceLandmarker = "null"
        THEN [env EXCEPT
                !.links = setOutputData(setOutputData(@, id, 0, Null), id, 1, Null),
                !.lastFaceMetrics = Null]
        ELSE IF in.throwAt = "face"
        THEN [env EXCEPT !.detectCalled = @ \cup {id}, !.thrown = id]
        ELSE [env EXCEPT
                !.detectCalled = @ \cup {id},
                !.lastFaceMetrics = FaceMetricsOf(in.face),
                !.links = setOutputData(
                              setOutputData(@, id, 0, Landmarks(in.face.count)),
                              id, 1, FaceMetricsOf(in.face))]

HandExtractNode(env, id, in) ==
    LET frame == getInputData(env.links, id, 0)
    IN  IF ~Truthy(frame) \/ ~modelsReady \/ handLandmarker = "null"
        THEN [env EXCEPT
                !.links = setOutputData(setOutputData(@, id, 0, Null), id, 1, Null),
                !.lastHandMetrics = Null]
        ELSE IF in.throwAt = "hand"
        THEN [env EXCEPT !.detectCalled = @ \cup {id}, !.thrown = id]
        ELSE [env EXCEPT
                !.detectCalled = @ \cup {id},
                !.handResult = in.hand,
                !.lastHandMetrics = HandMetricsOf(in.hand),
                !.links = setOutputData(
                              setOutputData(@, id, 0, Landmarks(in.hand.count)),
                              id, 1, HandMetricsOf(in.hand))]

\* Mutant of LandmarkOverlayNode: the scratch canvas is published whatever
\* the frame is
LandmarkOverlayNodeNoFrameCheck(env, id) ==
    [env EXCEPT !.links = setOutputData(@, id, 0, Canvas("overlay"))]

LandmarkOverlayNode(env, id) ==
    LET frame == getInputData(env.links, id, 0)
    IN  IF ~Truthy(frame)
        THEN [env EXCEPT !.links = setOutputData(@, id, 0, Null)]
        ELSE [env EXCEPT !.links = setOutputData(@, id, 0, Canvas("overlay"))]

\* Mutant of Controls: presence looks at the face alone
ControlsFaceOnly(face, hand) ==
    [k |-> "controls",
     tilt |-> FieldOr(face, "noseX", 500) - 500,
     lift |-> 1000 - FieldOr(hand, "palmY", 500),
     pinch |-> FieldOr(hand, "pinch", 0),
     jaw |-> FieldOr(face, "jaw", 0),
     presence |-> IF FieldOr(face, "count", 0) # 0 THEN 1 ELSE 0]

\* The control record of the Mapper (face ?? {}, hand ?? {} are FieldOr's defaults)
Controls(face, hand) ==
    [k |-> "controls",
     tilt |-> FieldOr(face, "noseX", 500) - 500,
     lift |-> 1000 - FieldOr(hand, "palmY", 500),
     pinch |-> FieldOr(hand, "pinch", 0),
     jaw |-> FieldOr(face, "jaw", 0),
     presence |-> Max(IF FieldOr(face, "count", 0) # 0 THEN 1 ELSE 0,
                      IF FieldOr(hand, "count", 0) # 0 THEN 1 ELSE 0)]

GestureMapperNode(env, id) ==
    [env EXCEPT !.links = setOutputData(@, id, 0,
        Controls(getInputData(env.links, id, 0), getInputData(env.links, id, 1)))]

\* getInputData(1) ?? {}
EmptyControls == [k |-> "controls"]

StageOutputNode(env, id) ==
    LET image == getInputData(env.links, id, 0)
        read == getInputData(env.links, id, 1)
        controls == IF Truthy(read) THEN read ELSE EmptyControls
        drawn == updateDebugOutput(drawStage(env, image, controls), controls)
    IN  [drawn EXCEPT !.stageInputs = [image |-> image, controls |-> controls]]

onExecute(env, id, in) ==
    LET type == NodeType(nodes, id)
        e == [env EXCEPT !.executed = Append(@, id)]
    IN  CASE type = "webcam"  -> WebcamSourceNode(e, id)
          [] type = "face"    -> FaceExtractNode(e, id, in)
          [] type = "hand"    -> HandExtractNode(e, id, in)
          [] type = "overlay" -> LandmarkOverlayNode(e, id)
          [] type = "mapper"  -> GestureMapperNode(e, id)
          [] type = "stage"   -> StageOutputNode(e, id)

\* graph.runStep(1, false) (main.ts 681).  litegraph.js runs the onExecute of
\* _nodes_executable in order inside one try block around the whole pass;
\* its catch rethrows (LiteGraph.throw_errors, true unless set, and main.ts
\* never sets it): the node after a throwing one is not executed.
RECURSIVE runStep(_, _, _)
runStep(env, ord, in) ==
    IF ord = <<>> \/ env.thrown # 0 THEN env
    ELSE runStep(onExecute(env, Head(ord), in), Tail(ord), in)

TickEnv ==
    [links |-> links, trail |-> trail,
     lastFaceMetrics |-> lastFaceMetrics, lastHandMetrics |-> lastHandMetrics,
     executed |-> <<>>, detectCalled |-> {}, thrown |-> 0,
     presenceLog |-> presenceLog,
     now |-> now, frame |-> frameCounter,
     stagePicture |-> stagePicture, debugPayload |-> debugPayload,
     stageInputs |-> stageInputs, handResult |-> handResult]

-----------------------------------------------------------------------------
(* Initial state: after bootstrap() (main.ts 730-755): createDefaultGraph,  *)
(* drawStage(null, {}), startGraphLoop.                                     *)

\* No StageOutputNode.onExecute, no detectForVideo yet
NoCall == [k |-> "none"]

NoOp == [op |-> "none", origin |-> 0, oslot |-> 0, target |-> 0, tslot |-> 0,
         accepted |-> TRUE, before |-> {}]

GraphInit ==
    /\ nodes = DefaultNodes
    /\ links = DefaultLinks
    /\ lastNodeId = 6
    /\ order = computeExecutionOrder(DefaultNodes, DefaultLinks)
    /\ lastOp = NoOp
    /\ edits = 0

LoopInit ==
    /\ rafId = "handle"
    /\ rafPending = 1
    /\ frameCounter = 0
    /\ trail = <<>>
    /\ presenceLog = <<0>>
    /\ lastFaceMetrics = Null
    /\ lastHandMetrics = Null
    /\ executed = <<>>
    /\ thrown = 0
    /\ detectCalled = {}
    /\ now = 0
    /\ rafFired = 0
    /\ stagePicture = StagePicture(Null, EmptyControls, 0)
    /\ debugPayload = [modelsReady |-> FALSE, cameraReady |-> FALSE, frame |-> 0,
                       face |-> Null, hand |-> Null, controls |-> EmptyControls]
    /\ stageInputs = NoCall
    /\ handResult = NoCall
    /\ loopPc = -1
    /\ resetPc = -1

Init ==
    /\ modelsReady = FALSE
    /\ cameraReady = FALSE
    /\ stream = 0
    /\ faceLandmarker = "null"
    /\ handLandmarker = "null"
    /\ startDisabled = FALSE
    /\ webcamSrc = 0
    /\ webcamHasFrame = FALSE
    /\ startPc = "idle"
    /\ pendingStream = 0
    /\ liveTracks = {}
    /\ streamsAcquired = 0
    /\ stoppedSinceStart = FALSE
    /\ GraphInit
    /\ LoopInit

\* The state once a Start click has run to its end before the first frame:
\* models loaded, camera running
Running ==
    /\ modelsReady = TRUE /\ cameraReady = TRUE /\ stream = 1
    /\ faceLandmarker = "loaded" /\ handLandmarker = "loaded"
    /\ startDisabled = FALSE /\ webcamSrc = 1 /\ webcamHasFrame = TRUE
    /\ startPc = "idle" /\ pendingStream = 0
    /\ liveTracks = {1} /\ streamsAcquired = 1
    /\ stoppedSinceStart = FALSE

InitRunning == Running /\ GraphInit /\ LoopInit

uiVars == <<modelsReady, cameraReady, stream, faceLandmarker, handLandmarker,
            startDisabled, webcamSrc, webcamHasFrame, startPc, pendingStream,
            liveTracks, streamsAcquired, stoppedSinceStart>>
appVars == <<uiVars, loopPc, resetPc>>
graphVars == <<nodes, links, lastNodeId, order, lastOp, edits>>
tickVars == <<trail, frameCounter, lastFaceMetrics, lastHandMetrics,
              executed, thrown, detectCalled, presenceLog,
              now, rafFired, stagePicture, debugPayload, stageInputs, handResult>>

-----------------------------------------------------------------------------
(* The frame loop (main.ts 676-686) *)

\* Mutant of startGraphLoop: no look at state.rafId
startGraphLoopUnguarded == <<"handle", rafPending + 1>>

\* startGraphLoop(): the values of rafId and rafPending afterwards
startGraphLoop ==
    IF rafId # "null"
    THEN <<rafId, rafPending>>
    ELSE <<"handle", rafPending + 1>>

\* loop: one animation-frame callback.  A throw out of runStep leaves the
\* callback before requestAnimationFrame(loop) is reached.
Tick(in, maxFrames) ==
    /\ rafPending > 0
    /\ frameCounter < maxFrames
    /\ frameCounter' = frameCounter + 1
    /\ rafFired' = rafFired + 1
    /\ now' = now + in.dt
    /\ \E env \in {runStep([TickEnv EXCEPT !.now = now + in.dt,
                                              !.frame = frameCounter + 1],
                             order, in)} :
           /\ links' = env.links
           /\ trail' = env.trail
           /\ lastFaceMetrics' = env.lastFaceMetrics
           /\ lastHandMetrics' = env.lastHandMetrics
           /\ executed' = env.executed
           /\ thrown' = env.thrown
           /\ detectCalled' = env.detectCalled
           /\ presenceLog' = env.presenceLog
           /\ stagePicture' = env.stagePicture
           /\ debugPayload' = env.debugPayload
           /\ stageInputs' = env.stageInputs
           /\ handResult' = env.handResult
           /\ IF env.thrown = 0
              THEN rafPending' = rafPending /\ rafId' = "handle"
              ELSE rafPending' = rafPending - 1 /\ rafId' = rafId
    /\ UNCHANGED <<appVars, nodes, lastNodeId, order, lastOp, edits>>

-----------------------------------------------------------------------------
(* The Start click handler (main.ts 689-702), one action per await *)

\* The end of the handler: startGraphLoop(), finally
StartDone ==
    /\ rafId' = startGraphLoop[1]
    /\ rafPending' = startGraphLoop[2]
    /\ startDisabled' = FALSE
    /\ startPc' = "idle"
    /\ pendingStream' = 0

\* startCamera() from its call to its first await or its early return
StartCameraCall ==
    IF stream # 0
    THEN StartDone
    ELSE /\ startPc' = "gum"
         /\ startDisabled' = TRUE
         /\ UNCHANGED <<rafId, rafPending, pendingStream>>

StartClick ==
    /\ ~startDisabled
    /\ startPc = "idle"
    /\ stoppedSinceStart' = FALSE
    /\ IF modelsReady
       THEN StartCameraCall
       ELSE /\ startPc' = "vision"
            /\ startDisabled' = TRUE
            /\ UNCHANGED <<rafId, rafPending, pendingStream>>
    /\ UNCHANGED <<modelsReady, cameraReady, stream, faceLandmarker, handLandmarker,
                   webcamSrc, webcamHasFrame, liveTracks, streamsAcquired,
                   graphVars, tickVars, loopPc, resetPc>>

\* FilesetResolver.forVisionTasks resolved: FaceLandmarker.createFromOptions is called
VisionResolved ==
    /\ startPc = "vision"
    /\ startPc' = "face"
    /\ UNCHANGED <<modelsReady, cameraReady, stream, faceLandmarker, handLandmarker,
                   startDisabled, webcamSrc, webcamHasFrame, pendingStream,
                   liveTracks, streamsAcquired, rafId, rafPending, graphVars, tickVars, loopPc, resetPc, stoppedSinceStart>>

FaceResolved ==
    /\ startPc = "face"
    /\ faceLandmarker' = "loaded"
    /\ startPc' = "hand"
    /\ UNCHANGED <<modelsReady, cameraReady, stream, handLandmarker,
                   startDisabled, webcamSrc, webcamHasFrame, pendingStream,
                   liveTracks, streamsAcquired, rafId, rafPending, graphVars, tickVars, loopPc, resetPc, stoppedSinceStart>>

HandResolved ==
    /\ startPc = "hand"
    /\ handLandmarker' = "loaded"
    /\ modelsReady' = TRUE
    /\ StartCameraCall
    /\ UNCHANGED <<cameraReady, stream, faceLandmarker,
                   webcamSrc, webcamHasFrame, liveTracks, streamsAcquired,
                   graphVars, tickVars, loopPc, resetPc, stoppedSinceStart>>

\* getUserMedia resolved with a new stream: srcObject = stream, play() is called
GumResolved ==
    /\ startPc = "gum"
    /\ streamsAcquired < MaxStreams
    /\ streamsAcquired' = streamsAcquired + 1
    /\ liveTracks' = liveTracks \cup {streamsAcquired + 1}
    /\ pendingStream' = streamsAcquired + 1
    /\ webcamSrc' = streamsAcquired + 1
    /\ webcamHasFrame' = FALSE
    /\ startPc' = "play"
    /\ UNCHANGED <<modelsReady, cameraReady, stream, faceLandmarker, handLandmarker,
                   startDisabled, rafId, rafPending, graphVars, tickVars, loopPc, resetPc, stoppedSinceStart>>

\* The video element has the first frame of a live stream (readyState >= 2)
VideoLoaded ==
    /\ webcamSrc # 0
    /\ webcamSrc \in liveTracks
    /\ ~webcamHasFrame
    /\ webcamHasFrame' = TRUE
    /\ UNCHANGED <<modelsReady, cameraReady, stream, faceLandmarker, handLandmarker,
                   startDisabled, webcamSrc, startPc, pendingStream,
                   liveTracks, streamsAcquired, rafId, rafPending, graphVars, tickVars, loopPc, resetPc, stoppedSinceStart>>

\* play() resolved (playback has begun): state.stream, cameraReady,
\* startGraphLoop(), finally
PlayResolved ==
    /\ startPc = "play"
    /\ webcamHasFrame
    /\ stream' = pendingStream
    /\ cameraReady' = TRUE
    /\ StartDone
    /\ UNCHANGED <<modelsReady, faceLandmarker, handLandmarker,
                   webcamSrc, webcamHasFrame, liveTracks, streamsAcquired,
                   graphVars, tickVars, loopPc, resetPc, stoppedSinceStart>>

\* An awaited promise of the handler rejected: catch, finally
StartFailed ==
    /\ startPc \in {"vision", "face", "hand", "gum", "play"}
    /\ startPc' = "idle"
    /\ startDisabled' = FALSE
    /\ pendingStream' = 0
    /\ UNCHANGED <<modelsReady, cameraReady, stream, faceLandmarker, handLandmarker,
                   webcamSrc, webcamHasFrame, liveTracks, streamsAcquired,
                   rafId, rafPending, graphVars, tickVars, loopPc, resetPc, stoppedSinceStart>>

-----------------------------------------------------------------------------
(* The Stop click handler: stopCamera() (main.ts 286-295, 704-706) *)

StopClick ==
    /\ stoppedSinceStart' = TRUE
    /\ IF stream = 0
       THEN UNCHANGED <<stream, cameraReady, webcamSrc, webcamHasFrame, liveTracks>>
       ELSE /\ liveTracks' = liveTracks \ {stream}
            /\ stream' = 0
            /\ cameraReady' = FALSE
            /\ webcamSrc' = 0
            /\ webcamHasFrame' = FALSE
    /\ UNCHANGED <<modelsReady, faceLandmarker, handLandmarker, startDisabled,
                   startPc, pendingStream, streamsAcquired, rafId, rafPending,
                   graphVars, tickVars, loopPc, resetPc>>

-----------------------------------------------------------------------------
(* The Reset click handler: createDefaultGraph() (main.ts 708-717) *)

\* Mutant of ResetClick: the reset also zeroes state.frameCounter
ResetClickZeroesFrameCounter ==
    /\ \E g \in {createDefaultGraph(Graph)} :
          /\ nodes' = g.nodes
          /\ links' = g.links
          /\ lastNodeId' = g.lastNodeId
          /\ order' = computeExecutionOrder(g.nodes, g.links)
    /\ lastOp' = [NoOp EXCEPT !.op = "reset", !.before = EdgeSet(links)]
    /\ frameCounter' = 0
    /\ UNCHANGED <<appVars, rafId, rafPending, edits, trail, lastFaceMetrics,
                   lastHandMetrics, executed, thrown, detectCalled, presenceLog,
                   now, rafFired, stagePicture, debugPayload, stageInputs, handResult>>

ResetClick ==
    /\ \E g \in {createDefaultGraph(Graph)} :
          /\ nodes' = g.nodes
          /\ links' = g.links
          /\ lastNodeId' = g.lastNodeId
          /\ order' = computeExecutionOrder(g.nodes, g.links)
    /\ lastOp' = [NoOp EXCEPT !.op = "reset", !.before = EdgeSet(links)]
    /\ UNCHANGED <<appVars, rafId, rafPending, edits, tickVars>>

-----------------------------------------------------------------------------
(* The node editor (LGraphCanvas, main.ts 124): the user wires, unwires,    *)
(* deletes and creates nodes of the registered types through it.            *)

OutSlots(ns, id) == 0 .. (Len(OutTypes(NodeType(ns, id))) - 1)
InSlots(ns, id) == 0 .. (Len(InTypes(NodeType(ns, id))) - 1)

EditorConnect(o, os, t, ts) ==
    /\ edits < MaxEdits
    /\ edits' = edits + 1
    /\ links' = connect(nodes, links, o, os, t, ts)
    /\ order' = computeExecutionOrder(nodes, links')
    /\ lastOp' = [op |-> "connect", origin |-> o, oslot |-> os, target |-> t,
                  tslot |-> ts, accepted |-> ConnectAccepted(nodes, o, os, t, ts),
                  before |-> EdgeSet(links)]
    /\ UNCHANGED <<appVars, rafId, rafPending, nodes, lastNodeId, tickVars>>

EditorDisconnect(t, ts) ==
    /\ edits < MaxEdits
    /\ InputLink(links, t, ts) # {}
    /\ edits' = edits + 1
    /\ links' = disconnectInput(links, t, ts)
    /\ order' = computeExecutionOrder(nodes, links')
    /\ lastOp' = [NoOp EXCEPT !.op = "disconnect", !.target = t, !.tslot = ts,
                              !.before = EdgeSet(links)]
    /\ UNCHANGED <<appVars, rafId, rafPending, nodes, lastNodeId, tickVars>>

EditorRemove(id) ==
    /\ edits < MaxEdits
    /\ edits' = edits + 1
    /\ nodes' = removeNode(nodes, id)
    /\ links' = removeNodeLinks(links, id)
    /\ order' = computeExecutionOrder(nodes', links')
    /\ lastOp' = [NoOp EXCEPT !.op = "remove", !.target = id, !.before = EdgeSet(links)]
    /\ UNCHANGED <<appVars, rafId, rafPending, lastNodeId, tickVars>>

\* graph.add(LiteGraph.createNode(type)): the node gets id ++last_node_id
EditorAdd(type) ==
    /\ edits < MaxEdits
    /\ Len(nodes) < MaxNodes
    /\ edits' = edits + 1
    /\ lastNodeId' = lastNodeId + 1
    /\ nodes' = Append(nodes, [id |-> lastNodeId + 1, type |-> type])
    /\ order' = computeExecutionOrder(nodes', links)
    /\ lastOp' = [NoOp EXCEPT !.op = "add", !.target = lastNodeId + 1,
                              !.before = EdgeSet(links)]
    /\ UNCHANGED <<appVars, rafId, rafPending, links, tickVars>>

-----------------------------------------------------------------------------
(* The two synchronous callbacks that touch the graph, call by call: `loop`  *)
(* (main.ts 679-683) and the Reset click handler's createDefaultGraph        *)
(* (main.ts 634-674).  Neither contains an await, so the event loop runs     *)
(* each to its end before it starts another callback.                        *)

\* Mutant of Dispatchable: a callback may start while another is running
DispatchableAnytime == TRUE

\* The event loop starts a callback only when no other one is running
Dispatchable == loopPc = -1 /\ resetPc = -1

\* The state one onExecute of a running `loop` works on
StepEnv ==
    [TickEnv EXCEPT !.executed = executed, !.detectCalled = detectCalled,
                    !.frame = frameCounter]

\* loop: state.frameCounter += 1, and runStep starts
LoopBegin(in) ==
    /\ Dispatchable
    /\ rafPending > 0
    /\ frameCounter < MaxStepFrames
    /\ frameCounter' = frameCounter + 1
    /\ rafFired' = rafFired + 1
    /\ now' = now + in.dt
    /\ rafPending' = rafPending - 1
    /\ executed' = <<>>
    /\ thrown' = 0
    /\ detectCalled' = {}
    /\ loopPc' = 0
    /\ UNCHANGED <<uiVars, resetPc, graphVars, rafId, trail, lastFaceMetrics,
                   lastHandMetrics, presenceLog, stagePicture, debugPayload,
                   stageInputs, handResult>>

\* runStep: the onExecute of the next node; a throw ends the callback
LoopNode(in) ==
    /\ loopPc >= 0
    /\ loopPc < Len(order)
    /\ \E env \in {onExecute(StepEnv, order[loopPc + 1], in)} :
           /\ links' = env.links
           /\ trail' = env.trail
           /\ lastFaceMetrics' = env.lastFaceMetrics
           /\ lastHandMetrics' = env.lastHandMetrics
           /\ executed' = env.executed
           /\ thrown' = env.thrown
           /\ detectCalled' = env.detectCalled
           /\ presenceLog' = env.presenceLog
           /\ stagePicture' = env.stagePicture
           /\ debugPayload' = env.debugPayload
           /\ stageInputs' = env.stageInputs
           /\ handResult' = env.handResult
           /\ loopPc' = IF env.thrown = 0 THEN loopPc + 1 ELSE -1
    /\ UNCHANGED <<uiVars, resetPc, nodes, lastNodeId, order, lastOp, edits,
                   rafId, rafPending, frameCounter, now, rafFired>>

\* loop: state.rafId = requestAnimationFrame(loop)
LoopEnd ==
    /\ loopPc >= 0
    /\ loopPc >= Len(order)
    /\ rafId' = "handle"
    /\ rafPending' = rafPending + 1
    /\ loopPc' = -1
    /\ UNCHANGED <<uiVars, resetPc, graphVars, tickVars>>

\* createDefaultGraph: graph.clear()
ResetBegin ==
    /\ Dispatchable
    /\ \E g \in {clear(Graph)} :
          /\ nodes' = g.nodes
          /\ links' = g.links
          /\ lastNodeId' = g.lastNodeId
          /\ order' = computeExecutionOrder(g.nodes, g.links)
    /\ lastOp' = [NoOp EXCEPT !.op = "reset", !.before = EdgeSet(links)]
    /\ resetPc' = 0
    /\ UNCHANGED <<uiVars, loopPc, edits, rafId, rafPending, tickVars>>

\* createDefaultGraph: the next graph.add
ResetAdd ==
    /\ resetPc >= 0
    /\ resetPc < Len(DefaultNodes)
    /\ \E g \in {add(Graph, DefaultNodes[resetPc + 1].type)} :
          /\ nodes' = g.nodes
          /\ lastNodeId' = g.lastNodeId
          /\ order' = computeExecutionOrder(g.nodes, links)
    /\ resetPc' = resetPc + 1
    /\ UNCHANGED <<uiVars, loopPc, links, lastOp, edits, rafId, rafPending, tickVars>>

\* createDefaultGraph: the next connect, between the nodes just added
ResetConnect ==
    /\ resetPc >= Len(DefaultNodes)
    /\ resetPc < Len(DefaultNodes) + Len(DefaultConnects)
    /\ LET c == DefaultConnects[resetPc - Len(DefaultNodes) + 1]
           base == lastNodeId - Len(DefaultNodes)
       IN  links' = connect(nodes, links, base + c[1], c[2], base + c[3], c[4])
    /\ order' = computeExecutionOrder(nodes, links')
    /\ resetPc' = resetPc + 1
    /\ UNCHANGED <<uiVars, loopPc, nodes, lastNodeId, lastOp, edits,
                   rafId, rafPending, tickVars>>

\* createDefaultGraph returns: setDirty, setStatus
ResetEnd ==
    /\ resetPc = Len(DefaultNodes) + Len(DefaultConnects)
    /\ resetPc' = -1
    /\ UNCHANGED <<uiVars, loopPc, graphVars, rafId, rafPending, tickVars>>

-----------------------------------------------------------------------------
(* Specifications *)

\* Display frames between two callbacks: one, or two when a frame is dropped
Elapsed == {1, 2}

TickInputs == [face : FaceResults, hand : HandResults, throwAt : ThrowAt, dt : {1}]

\* The application: the three buttons, the start handler's awaits, the frames
Next ==
    \/ StartClick
    \/ VisionResolved
    \/ FaceResolved
    \/ HandResolved
    \/ GumResolved
    \/ VideoLoaded
    \/ PlayResolved
    \/ StartFailed
    \/ StopClick
    \/ ResetClick
    \/ \E in \in TickInputs : Tick(in, MaxFrames)

Spec == Init /\ [][Next]_vars

\* The node editor on a running pipeline
EditInputs == [face : FaceResults, hand : {NoHand}, throwAt : {"none"}, dt : {1}]

NextEdit ==
    \/ \E o \in NodeIds(nodes), t \in NodeIds(nodes) :
         \E os \in OutSlots(nodes, o), ts \in InSlots(nodes, t) :
            EditorConnect(o, os, t, ts)
    \/ \E t \in NodeIds(nodes) : \E ts \in InSlots(nodes, t) : EditorDisconnect(t, ts)
    \/ \E id \in NodeIds(nodes) : EditorRemove(id)
    \/ \E type \in NodeTypes : EditorAdd(type)
    \/ ResetClick
    \/ \E in \in EditInputs : Tick(in, MaxEditFrames)

SpecEdit == InitRunning /\ [][NextEdit]_vars

\* A long run of the default pipeline with the camera on: between ticks the
\* face comes or goes at most MaxToggles times (the first entry of
\* presenceLog is bootstrap's drawStage(null, {}), not a tick)
Toggles(log) == Cardinality({i \in 1 .. (Len(log) - 1) : log[i] # log[i + 1]})

TrailInputs == [face : FaceResults, hand : {NoHand}, throwAt : {"none"}, dt : {1}]

NextTrail ==
    \E in \in TrailInputs :
        /\ Tick(in, MaxTrailFrames)
        /\ Toggles(Tail(presenceLog')) <= MaxToggles

SpecTrail == InitRunning /\ [][NextTrail]_vars

\* The running default pipeline seen from the stage: hands at several pinch
\* distances (thousandths of the frame), frames on time or late
PinchDistances == {0, 20, 125, 300}

PinchHands ==
    {NoHand} \cup {[count |-> 1, pinchDistance |-> d, wristY |-> 300] : d \in PinchDistances}

StageTickInputs == [face : FaceResults, hand : PinchHands, throwAt : {"none"}, dt : Elapsed]

NextStage == \E in \in StageTickInputs : Tick(in, MaxStageFrames)

SpecStage == InitRunning /\ [][NextStage]_vars

\* The running default pipeline with the Reset button, call by call
StepInputs == [face : FaceResults, hand : {NoHand}, throwAt : {"none", "face"}, dt : {1}]

NextSteps ==
    \/ \E in \in StepInputs : LoopBegin(in)
    \/ \E in \in StepInputs : LoopNode(in)
    \/ LoopEnd
    \/ ResetBegin
    \/ ResetAdd
    \/ ResetConnect
    \/ ResetEnd

SpecSteps == InitRunning /\ [][NextSteps]_vars

-----------------------------------------------------------------------------
(* Properties *)

\* A step of the frame loop: only `loop` increments state.frameCounter
TickStep == frameCounter' = frameCounter + 1

\* A tick in which drawStage pushed a point
PushStep ==
    /\ TickStep
    /\ Len(presenceLog') = Len(presenceLog) + 1
    /\ presenceLog'[Len(presenceLog')] = 1

\* A tick in which drawStage ran with presence 0
QuietStep ==
    /\ TickStep
    /\ Len(presenceLog') = Len(presenceLog) + 1
    /\ presenceLog'[Len(presenceLog')] = 0

Position(seq, x) == CHOOSE i \in DOMAIN seq : seq[i] = x

Aged(p) == [p EXCEPT !.life = @ - DecayStep]

\* Every node ran once, every node after the nodes that feed it
RanInOrder(ex, ns, ls) ==
    /\ Len(ex) = Len(ns)
    /\ SeqRange(ex) = NodeIds(ns)
    /\ \A i \in DOMAIN ls : Position(ex, ls[i].origin) < Position(ex, ls[i].target)

\* C1: in every tick of an acyclic graph every node executes exactly once,
\* each after the nodes whose outputs feed its inputs.
C1_TickRunsEveryNodeInOrder ==
    [][(TickStep /\ Acyclic(links)) => RanInOrder(executed', nodes, links)]_vars

\* The part of C1 that does hold: a tick in which no onExecute throws runs
\* every node of an acyclic graph once, producers first.
TickOrderWhenNothingThrows ==
    [][(TickStep /\ Acyclic(links) /\ thrown' = 0)
          => RanInOrder(executed', nodes, links)]_vars

\* C2: when a node's onExecute throws during a tick, the other nodes still
\* execute in that tick and the failing node's outputs hold null.
C2_ThrowDoesNotStopOtherNodes ==
    [][(TickStep /\ thrown' # 0) =>
          /\ SeqRange(executed') = NodeIds(nodes)
          /\ \A i \in DOMAIN links' :
                links'[i].origin = thrown' => links'[i].data = Null]_vars

\* C3: after a tick in which a node's onExecute throws, the frame loop has
\* still scheduled its next animation frame.
C3_LoopSurvivesThrow ==
    [][(TickStep /\ thrown' # 0) => rafPending' > 0]_vars

\* C4: a connect between ports whose value kinds differ (image-buffer,
\* number, landmark-set-list, metrics-record, control-record) is rejected and
\* leaves the edge set as it was.
C4_KindMismatchRejected ==
    (lastOp.op = "connect" /\
       OutKinds(NodeType(nodes, lastOp.origin))[lastOp.oslot + 1]
         # InKinds(NodeType(nodes, lastOp.target))[lastOp.tslot + 1])
    => (~lastOp.accepted /\ EdgeSet(links) = lastOp.before)

\* C5: after any sequence of graph operations the graph is acyclic.
C5_GraphStaysAcyclic == Acyclic(links)

\* C6: the trail never holds more than 45 points at the end of a tick, and a
\* push onto a full trail evicts the oldest point, the others keeping their
\* order.
C6_TrailCappedOldestEvicted ==
    [][/\ Len(trail') <= TrailMax
       /\ (PushStep /\ Len(trail) = TrailMax) =>
             /\ Len(trail') = TrailMax
             /\ \A i \in 1 .. (TrailMax - 1) : trail'[i] = Aged(trail[i + 1])]_vars

\* C6 happens: a full trail was pushed onto (the last 46 drawStage calls all
\* had presence)
C6_Witness ==
    /\ Len(trail) = TrailMax
    /\ Len(presenceLog) > TrailMax + 1
    /\ \A i \in (Len(presenceLog) - TrailMax) .. Len(presenceLog) : presenceLog[i] = 1

\* C7 as stated: the new point is appended after the decay, so it ends its
\* first tick undecayed (life 1).
C7_NewPointNotDecayed ==
    [][PushStep => trail'[Len(trail')].life = LifeFull]_vars

\* The old points of tr that outlive one decay, each one step older
Survivors(tr) ==
    LET Outlives(p) == p.life > DecayStep
        kept == SelectSeq(tr, Outlives)
    IN  [i \in DOMAIN kept |-> Aged(kept[i])]

\* C7 amended: a tick with presence first appends one point with life 1
\* (evicting the oldest above 45), then decays every point, the new one
\* included, by 0.02 and drops those at life <= 0: the new point ends the tick
\* at 0.98; a tick with presence 0 appends nothing and only decays and drops.
C7_PushThenDecay ==
    [][/\ QuietStep => trail' = Survivors(trail)
       /\ PushStep =>
            LET m == Len(trail') - 1
                old == IF Len(trail) = TrailMax THEN Tail(trail) ELSE trail
            IN  /\ m >= 0
                /\ trail'[m + 1].life = LifeFull - DecayStep
                /\ SubSeq(trail', 1, m) = Survivors(old)]_vars

\* C7 happens: a point was dropped at life 0 in the very tick that appended
\* a new one
C7_Witness ==
    LET n == Len(presenceLog)
    IN  /\ n > LifeFull
        /\ presenceLog[n] = 1
        /\ presenceLog[n - LifeFull + 1] = 1
        /\ Len(trail) >= 1
        /\ trail[Len(trail)].life = LifeFull - DecayStep
        /\ \A i \in DOMAIN trail : trail[i].life < LifeFull

\* The lives the trail must hold after the drawStage calls of log, from the
\* log alone: a point pushed by call i has been decayed once per call since,
\* call i included; the alive ones stay, the newest 45 of them at most.
LivesAfter(log) ==
    LET n == Len(log)
        calls == [i \in 1 .. n |-> i]
        Alive(i) == log[i] = 1 /\ (n - i + 1) * DecayStep < LifeFull
        alive == SelectSeq(calls, Alive)
        at == SubSeq(alive, Max(1, Len(alive) - TrailMax + 1), Len(alive))
    IN  [i \in DOMAIN at |-> LifeFull - (n - at[i] + 1) * DecayStep]

\* C8: the trail's length and every point's life are a function of the
\* sequence of presence values alone.
C8_TrailDeterminedByPresence ==
    [i \in DOMAIN trail |-> trail[i].life] = LivesAfter(presenceLog)

\* C8 happens: presence came, went and came back, and a point has expired
C8_Witness ==
    /\ Len(presenceLog) > LifeFull
    /\ presenceLog[2] = 1
    /\ presenceLog[3] = 0
    /\ presenceLog[Len(presenceLog)] = 1
    /\ Len(trail) >= 2

\* C9: the Stop click leaves no frame callback scheduled, no camera track
\* live and no landmarker held.
C9_StopTearsDown ==
    [][StopClick =>
          /\ rafPending' = 0
          /\ liveTracks' = {}
          /\ faceLandmarker' = "null" /\ handLandmarker' = "null"]_vars

\* The frame input an Extractor read in the tick just run, and what it
\* published
ExtractorIdle(id, landmarker) ==
    \/ ~Truthy(getInputData(links', id, 0))
    \/ ~modelsReady
    \/ landmarker = "null"

PublishedNull(id) ==
    \A i \in DOMAIN links' : links'[i].origin = id => links'[i].data = Null

\* C10: an Extractor whose frame input is null or whose backend is not
\* initialised publishes null landmarks and null metrics, does not call the
\* backend and does not throw.
C10_ExtractorNullWhenNotReady ==
    [][TickStep =>
         \A i \in DOMAIN nodes :
            LET id == nodes[i].id
                type == nodes[i].type
            IN  (/\ type \in {"face", "hand"}
                 /\ id \in SeqRange(executed')
                 /\ ExtractorIdle(id, IF type = "face" THEN faceLandmarker
                                                        ELSE handLandmarker))
                => /\ PublishedNull(id)
                   /\ id \notin detectCalled'
                   /\ thrown' # id
                   /\ IF type = "face" THEN lastFaceMetrics' = Null
                                       ELSE lastHandMetrics' = Null]_vars

\* C10 happens: a tick ran while the hand landmarker was still loading, and
\* both Extractors published null
C10_Witness ==
    /\ startPc = "hand"
    /\ faceLandmarker = "loaded"
    /\ ~modelsReady
    /\ frameCounter > 0
    /\ {2, 3} \subseteq SeqRange(executed)
    /\ \A i \in DOMAIN links : links[i].origin \in {2, 3} => links[i].data = Null

\* What a node published in the tick just run: the values on its output links
Published(id, slot) ==
    {links'[i].data : i \in {j \in DOMAIN links' : links'[j].origin = id /\ links'[j].oslot = slot}}

\* Metrics that report a detection
Detected(m) == "count" \in DOMAIN m /\ m.count # 0

\* The Mapper's documented neutral defaults
NeutralControls ==
    [k |-> "controls", tilt |-> 0, lift |-> 500, pinch |-> 0, jaw |-> 0, presence |-> 0]

\* C11: the Mapper does not throw; its presence is 1 exactly when the face or
\* the hand metrics on its inputs report a nonzero count; with null metrics on
\* both inputs it publishes presence 0, tilt 0, lift 0.5, pinch 0, jaw 0.
C11_MapperPresenceAndDefaults ==
    [][TickStep =>
         \A i \in DOMAIN nodes :
            LET id == nodes[i].id
                face == getInputData(links', id, 0)
                hand == getInputData(links', id, 1)
            IN  (nodes[i].type = "mapper" /\ id \in SeqRange(executed'))
                => /\ thrown' # id
                   /\ \A c \in Published(id, 0) :
                         /\ c.presence = IF Detected(face) \/ Detected(hand) THEN 1 ELSE 0
                         /\ (face = Null /\ hand = Null) => c = NeutralControls]_vars

\* C11 happens: the Mapper ran on the metrics of a frame with a hand and no
\* face and published presence 1 to the Stage
C11_Witness ==
    /\ 5 \in SeqRange(executed)
    /\ getInputData(links, 5, 0) = FaceMetricsOf(NoFace)
    /\ getInputData(links, 5, 1) = HandMetricsOf(OneHand)
    /\ getInputData(links, 6, 1).presence = 1

\* C12: while the camera is not ready (cameraReady false or the video has no
\* current frame) the Source does not throw and publishes null on its frame
\* port and the current time on its timestamp port.
C12_SourceNullWhenCameraNotReady ==
    [][TickStep =>
         \A i \in DOMAIN nodes :
            LET id == nodes[i].id
            IN  (/\ nodes[i].type = "webcam"
                 /\ id \in SeqRange(executed')
                 /\ (~cameraReady \/ ~webcamHasFrame))
                => /\ thrown' # id
                   /\ Published(id, 0) \subseteq {Null}
                   /\ Published(id, 1) \subseteq {Number}]_vars

\* C12 happens: the video already has a frame but play() has not resolved
\* (cameraReady is false), and the Source's outputs hold null and a time
C12_Witness ==
    /\ startPc = "play"
    /\ webcamHasFrame
    /\ ~cameraReady
    /\ 1 \in SeqRange(executed)
    /\ getInputData(links, 2, 0) = Null
    /\ getInputData(links, 2, 1) = Number

\* C13: whatever the graph held before, after createDefaultGraph it consists
\* of exactly the six default nodes and the eleven default edges, in the
\* default execution order (so a second run changes nothing).
C13_ResetGivesDefaultGraph ==
    lastOp.op = "reset" =>
        /\ nodes = DefaultNodes
        /\ lastNodeId = Len(DefaultNodes)
        /\ Len(links) = Len(DefaultConnects)
        /\ EdgeSet(links) = SeqRange(DefaultConnects)
        /\ order = computeExecutionOrder(DefaultNodes, DefaultLinks)

\* C13 happens: Reset was clicked on a graph the editor had rewired
C13_Witness ==
    /\ lastOp.op = "reset"
    /\ lastOp.before # SeqRange(DefaultConnects)
    /\ edits > 0

\* The Stage Output of the default graph executed again on the inputs of its
\* previous execute, with no presence
StageRepeated ==
    /\ TickStep
    /\ 6 \in SeqRange(executed')
    /\ stageInputs' = stageInputs
    /\ FieldOr(stageInputs'.controls, "presence", 0) = 0

\* C14: a second execute of the Stage Output on identical image and controls
\* with presence 0 publishes the identical picture and debug payload (the
\* frame number apart); the trail only decays.
C14_RepeatedOutputIdentical ==
    [][StageRepeated =>
          /\ stagePicture' = stagePicture
          /\ [debugPayload' EXCEPT !.frame = 0] = [debugPayload EXCEPT !.frame = 0]
          /\ trail' = TrailDecay(trail)]_vars

\* The part of C14 that does hold: the hue apart, the picture is the same,
\* and the trail only decays.
StageRepeatedSameButHue ==
    [][StageRepeated =>
          /\ [stagePicture' EXCEPT !.hue = 0] = [stagePicture EXCEPT !.hue = 0]
          /\ trail' = TrailDecay(trail)]_vars

\* C17: for a detected hand at thumb-index distance d the pinch metric is
\* clamp(1 - 8 d, 0, 1), which is max(0, 1 - 8 d), and the Mapper passes it
\* on unchanged: 0.84 at d = 0.02, 0 from d = 0.125 on, always within [0, 1].
C17_PinchMetricAndControl ==
    (/\ handResult # NoCall
     /\ 3 \in detectCalled
     /\ 5 \in SeqRange(executed)
     /\ handResult.count > 0)
    => LET d == handResult.pinchDistance
           expected == IF 8 * d >= 1000 THEN 0 ELSE 1000 - 8 * d
           control == getInputData(links, 6, 1).pinch
       IN  /\ lastHandMetrics.pinch = expected
           /\ control = expected
           /\ control >= 0 /\ control <= 1000
           /\ d = 20 => control = 840
           /\ d >= 125 => control = 0

\* C17 happens: a hand pinched at distance 0.02 and the Stage received 0.84
C17_Witness ==
    /\ handResult # NoCall
    /\ 3 \in detectCalled
    /\ handResult.count > 0
    /\ handResult.pinchDistance = 20
    /\ getInputData(links, 6, 1).pinch = 840

\* C18: the frame counter always equals the number of animation-frame
\* callbacks run so far; a step changes it only by running one, by one.
C18_FrameCounterCountsTicks ==
    [][/\ frameCounter' = rafFired'
       /\ frameCounter' - frameCounter = rafFired' - rafFired
       /\ frameCounter' - frameCounter \in {0, 1}]_vars

\* C18 happens: ticks ran, then Start completed, Stop and Reset were clicked
C18_Witness ==
    /\ frameCounter >= 2
    /\ lastOp.op = "reset"
    /\ modelsReady
    /\ startPc = "idle"
    /\ streamsAcquired >= 1
    /\ liveTracks = {}

\* C19: at most one animation-frame callback of the loop is pending.
C19_AtMostOneLoop == rafPending <= 1

\* C19 happens: a Start click ran to its end after bootstrap (startGraphLoop
\* was called a second time) and frames are still ticking
C19_Witness ==
    /\ cameraReady
    /\ startPc = "idle"
    /\ frameCounter > 0
    /\ rafPending = 1

\* The last n entries of log
LastOf(log, n) == SubSeq(log, Max(1, Len(log) - n + 1), Len(log))

\* C20: every point's life is above 0 and at most 1, lives do not decrease
\* from the oldest point to the newest, no point outlives 50 drawStage calls
\* (the trail holds no more points than the last 49 calls pushed), and after
\* 50 calls without presence the trail is empty.
C20_TrailLivesBoundedAndOrdered ==
    /\ \A i \in DOMAIN trail : trail[i].life > 0 /\ trail[i].life <= LifeFull
    /\ \A i \in DOMAIN trail : \A j \in DOMAIN trail :
          i < j => trail[i].life <= trail[j].life
    /\ LET recent == LastOf(presenceLog, LifeFull - 1)
       IN  Len(trail) <= Cardinality({j \in DOMAIN recent : recent[j] = 1})
    /\ (/\ Len(presenceLog) >= LifeFull
        /\ \A j \in DOMAIN LastOf(presenceLog, LifeFull) :
               LastOf(presenceLog, LifeFull)[j] = 0)
       => trail = <<>>

\* C20 happens: presence stopped and the last point has just expired
C20_Witness ==
    LET n == Len(presenceLog)
    IN  /\ n >= LifeFull
        /\ presenceLog[n - LifeFull + 1] = 1
        /\ \A j \in (n - LifeFull + 2) .. n : presenceLog[j] = 0
        /\ trail = <<>>

\* C15: a tick and a Reset are never both in progress, and every node a
\* tick executes finds the complete default graph, never a partly rebuilt one.
C15_ResetNeverInsideTick ==
    /\ ~(loopPc >= 0 /\ resetPc >= 0)
    /\ loopPc >= 0 =>
          /\ nodes = DefaultNodes
          /\ EdgeSet(links) = SeqRange(DefaultConnects)
          /\ order = computeExecutionOrder(DefaultNodes, DefaultLinks)

\* C15 happens: a tick is under way on a graph that a Reset rebuilt after the
\* previous tick
C15_Witness ==
    /\ loopPc > 0
    /\ frameCounter >= 2
    /\ lastOp.op = "reset"
    /\ resetPc = -1

\* The lives of the points of a trail
Lives(tr) == [i \in DOMAIN tr |-> tr[i].life]

\* C16: in one tick the trail is decayed by exactly one step and receives at
\* most one point (it is the private state of one Stage Output, and no other
\* node instance touches it).
C16_TrailTouchedOncePerTick ==
    [][TickStep =>
          /\ Len(presenceLog') <= Len(presenceLog) + 1
          /\ Lives(trail') \in {Lives(trail), Lives(TrailUpdate(trail, 0, 0, 0)),
                                 Lives(TrailUpdate(trail, 1, 0, 0))}]_vars

\* C21: in the default graph, a tick with the camera not ready or the models
\* not loaded throws nowhere and carries "no data" to the end: both
\* Extractors publish null, the Overlay a null image, the Mapper presence 0,
\* and drawStage runs without presence, so the trail does not grow.
C21_NoDataPropagatesInOneTick ==
    [][(/\ TickStep
        /\ nodes = DefaultNodes
        /\ EdgeSet(links) = SeqRange(DefaultConnects)
        /\ (~cameraReady \/ ~webcamHasFrame \/ ~modelsReady))
       => /\ thrown' = 0
          /\ SeqRange(executed') = NodeIds(nodes)
          /\ \A slot \in {0, 1} :
                Published(2, slot) = {Null} /\ Published(3, slot) = {Null}
          /\ Published(4, 0) = {Null}
          /\ \A c \in Published(5, 0) : c.presence = 0
          /\ Published(5, 0) # {}
          /\ Len(presenceLog') = Len(presenceLog) + 1
          /\ presenceLog'[Len(presenceLog')] = 0
          /\ Len(trail') <= Len(trail)]_vars

\* C21 happens: the camera ran and left a point on the trail, Stop was
\* clicked, and a later tick carried null and presence 0 to the Stage
C21_Witness ==
    /\ modelsReady
    /\ ~cameraReady
    /\ Len(trail) >= 1
    /\ 6 \in SeqRange(executed)
    /\ getInputData(links, 6, 0) = Null
    /\ getInputData(links, 6, 1) = NeutralControls

\* C22: every camera stream with live tracks is the one state.stream refers
\* to, and cameraReady is true exactly when state.stream is set.
C22_LiveStreamIsStateStream ==
    /\ liveTracks \subseteq (IF stream = 0 THEN {} ELSE {stream})
    /\ cameraReady <=> stream # 0

\* C23: from a handled Stop click until the next Start click the camera is
\* off: cameraReady is false and state.stream is null.
C23_StoppedUntilNextStart ==
    stoppedSinceStart => (~cameraReady /\ stream = 0)

=============================================================================
